---- MODULE Spec2Model ----
(***************************************************************************)
(* A model of alburnum/maas/flesh/__init__.py: the command-dispatch core   *)
(* of the MAAS command-line client.                                        *)
(*                                                                         *)
(*   Spec      main(): parser construction, argument parsing, dispatch,    *)
(*             the credential-bound commands' bootstrap, and the failure   *)
(*             escalation policy, over a sequence of invocations.          *)
(*   SpecTree  ArgumentParser: the lazily created child-parser group.      *)
(*   SpecName  Command.name(): the derivation of a command's name.         *)
(***************************************************************************)
EXTENDS Integers, Sequences, FiniteSets, TLC

\* ------------------------------------------------------------------ bounds

\* Number of profiles a profile store may hold (profiles are named 1..MaxProfiles;
\* MaxProfiles + 1 is a name that is never stored).
MaxProfiles == 2
\* Number of invocations of main() in one behaviour.
MaxRuns == 2
\* Number of parser nodes in the tree of SpecTree.
MaxNodes == 3
\* Number of pieces an identifier of SpecName is built from.
MaxPieces == 5
\* Number of calls of name() on one command type in SpecName.
MaxCalls == 2

VARIABLES
    \* ---- the process environment and the module-level state
    stdinTty,          \* sys.stdin.isatty()
    stdoutTty,         \* sys.stdout.isatty()
    PROFILE_NAMES,     \* sorted(config), a sequence of profile names
    PROFILE_DEFAULT,   \* config.default: [none, name]
    \* ---- one invocation of main()
    run,               \* the number of this invocation
    argv,              \* the arguments of this invocation
    pc,                \* the position of main()
    parser,            \* "None" or "ArgumentParser"
    options,           \* the parsed options (NoOptions: None)
    failure,           \* the uncaught Exception of the guarded region
    interrupted,       \* a KeyboardInterrupt was delivered
    outcome,           \* how main() ended
    stderr,            \* what ArgumentParser.exit wrote, in order
    debuggerLog,       \* the tracebacks post_mortem was entered on
    invoked,           \* calls of execute(options) at line 271
    raisedExit,        \* the status of the SystemExit raised in the try body
    \* ---- the credential-bound commands
    session,           \* the session of this invocation
    origin,            \* the origin of this invocation
    bootstraps,        \* sessions built in this invocation
    calls,             \* the concrete execute() calls of this invocation
    nSessions,         \* sessions built so far, over all invocations
    nOrigins,          \* origins built so far, over all invocations
    retired,           \* [sessions, origins] of the earlier invocations
    \* ---- the parser tree (SpecTree)
    nodes,             \* the number of parser nodes constructed
    subparsersAttr,    \* node -> self.__subparsers (0: no such attribute)
    baseSubparsers,    \* node -> argparse's own self._subparsers is set
    choices,           \* node -> (name -> child node, 0: absent)
    nGroups,           \* child-parser groups constructed so far
    built,             \* node -> groups constructed for the node
    firstGroup,        \* node -> the group its first access returned
    result,            \* the last operation and what it returned
    \* ---- Command.name() (SpecName)
    ident,             \* cls.__name__, a sequence of characters
    names              \* the results of the calls of name(), in order

envVars == <<stdinTty, stdoutTty, PROFILE_NAMES, PROFILE_DEFAULT>>
mainVars == <<run, argv, pc, parser, options, failure, interrupted, outcome,
              stderr, debuggerLog, invoked, raisedExit>>
originVars == <<session, origin, bootstraps, calls, nSessions, nOrigins, retired>>
treeVars == <<nodes, subparsersAttr, baseSubparsers, choices, nGroups, built,
              firstGroup, result>>
nameVars == <<ident, names>>
vars == <<envVars, mainVars, originVars, treeVars, nameVars>>

\* ------------------------------------------------------------ values

Profiles == 1..MaxProfiles
UnknownProfile == MaxProfiles + 1

NoDefault == [none |-> TRUE, name |-> 0]
NoOptions == [set |-> FALSE, execute |-> "none", debug |-> FALSE,
              profile_name |-> 0, output_format |-> "none"]
NoFailure == [type |-> "none", msg |-> "none"]
NoSession == [id |-> 0, profile |-> 0]
NoOrigin == [id |-> 0, session |-> 0]
NotRaised == -1
Running == [kind |-> "running", status |-> 0, error |-> NoFailure]

SystemExit(status) == [kind |-> "SystemExit", status |-> status, error |-> NoFailure]
Returned == [kind |-> "returned", status |-> 0, error |-> NoFailure]
Raised(f) == [kind |-> "raised", status |-> 1, error |-> f]
KeyboardInterrupt == [kind |-> "KeyboardInterrupt", status |-> 1, error |-> NoFailure]

ChildNames == {"list", "files"}
NoResult == [op |-> "none", node |-> 0, group |-> 0, value |-> 0, raised |-> "none"]

OriginBound == {"OriginCommand", "OriginTableCommand"}
TableBound == {"TableCommand", "OriginTableCommand"}

\* The argument lists of an invocation: the command path, --debug,
\* --profile-name (0: omitted) and --output-format.
Argvs ==
    [cmd : {"none", "verb", "bogus", "Command"}, debug : BOOLEAN,
     profile : {0}, fmt : {"omitted"}]
    \cup [cmd : {"TableCommand"}, debug : BOOLEAN,
          profile : {0}, fmt : {"omitted", "csv"}]
    \cup [cmd : {"OriginCommand"}, debug : BOOLEAN,
          profile : 0..UnknownProfile, fmt : {"omitted"}]
    \cup [cmd : {"OriginTableCommand"}, debug : BOOLEAN,
          profile : 0..UnknownProfile, fmt : {"omitted", "csv"}]

\* ------------------------------------------------------------ helpers

Min(S) == CHOOSE x \in S : \A y \in S : x <= y

RECURSIVE sorted(_)
sorted(S) == IF S = {} THEN <<>> ELSE <<Min(S)>> \o sorted(S \ {Min(S)})

Range(s) == {s[i] : i \in 1..Len(s)}

\* colorized(text): the Color instance at a terminal, its text without
\* colours otherwise.
colorized(text) ==
    IF stdoutTty THEN [text |-> text, color |-> "autored"]
    ELSE [text |-> text, color |-> "none"]

plain(text) == [text |-> text, color |-> "none"]

\* "%s" % error
Format(error) == error.msg

\* An Exception raised in the try body of main() reaches the handler of
\* line 274.
Raise(f) ==
    /\ failure' = f
    /\ pc' = "except"
    /\ UNCHANGED <<outcome, raisedExit>>

\* Mutant: the handler of line 274 catches BaseException, so a SystemExit of
\* the try body is escalated like any failure.
RaiseSystemExitCaught(status) ==
    /\ raisedExit' = status
    /\ failure' = [type |-> "SystemExit", msg |-> "exit"]
    /\ pc' = "except"
    /\ UNCHANGED outcome

\* A SystemExit raised in the try body of main(): it is no Exception and no
\* KeyboardInterrupt, so no except clause of main() matches it.
RaiseSystemExit(status) ==
    /\ raisedExit' = status
    /\ outcome' = SystemExit(status)
    /\ pc' = "done"
    /\ UNCHANGED failure

\* ArgumentParser.exit(status, message), as inherited from argparse: write
\* the message, then raise SystemExit(status), in the try body or in the
\* handler of line 274.
exit(status, message) ==
    /\ stderr' = stderr \o message
    /\ IF pc \in {"parse", "dispatch"}
       THEN RaiseSystemExit(status)
       ELSE /\ outcome' = SystemExit(status)
            /\ pc' = "done"
            /\ UNCHANGED <<failure, raisedExit>>

\* ArgumentParser.error(message)
error(message) ==
    exit(2, <<colorized("Error: "), plain(message), plain("\n")>>)

\* ------------------------------------------------------------ main()

\* Mutant: required=(PROFILE_DEFAULT is not None)
RequiredInverted == ~PROFILE_DEFAULT.none

\* OriginCommandBase.__init__: required=(PROFILE_DEFAULT is None)
Required == PROFILE_DEFAULT.none

\* TableCommand.__init__: the default of --output-format
DefaultTarget == IF stdoutTty THEN "pretty" ELSE "plain"

\* The options parse_args builds for the arguments a, given that a is valid.
Namespace(a) ==
    [set |-> TRUE,
     execute |-> IF a.cmd \in {"none", "verb"} THEN "none" ELSE a.cmd,
     debug |-> a.debug,
     profile_name |->
        IF a.cmd \notin OriginBound THEN 0
        ELSE IF a.profile # 0 THEN a.profile
        ELSE IF PROFILE_DEFAULT.none THEN 0 ELSE PROFILE_DEFAULT.name,
     output_format |->
        IF a.cmd \notin TableBound THEN "none"
        ELSE IF a.fmt # "omitted" THEN a.fmt ELSE DefaultTarget]

\* What parse_args rejects: an unknown command, a --profile-name outside
\* choices=PROFILE_NAMES, a required --profile-name left out.
UsageError(a) ==
    IF a.cmd = "bogus" THEN "invalid choice"
    ELSE IF a.cmd \in OriginBound /\ a.profile # 0
            /\ a.profile \notin Range(PROFILE_NAMES)
        THEN "argument --profile-name: invalid choice"
    ELSE IF a.cmd \in OriginBound /\ a.profile = 0 /\ Required
        THEN "the following arguments are required: --profile-name"
    ELSE "none"

\* line 263: parser = prepare_parser(program)
PrepareParser ==
    /\ pc = "prepare"
    /\ \E ok \in BOOLEAN :
        IF ok
        THEN /\ parser' = "ArgumentParser"
             /\ pc' = "parse"
             /\ UNCHANGED <<failure, outcome, stderr, raisedExit>>
        ELSE /\ Raise([type |-> "ImportError", msg |-> "cannot import"])
             /\ UNCHANGED <<parser, stderr>>
    /\ UNCHANGED <<envVars, run, argv, options, interrupted, debuggerLog, invoked,
                   originVars, treeVars, nameVars>>

\* lines 264-265: options = parser.parse_args(arguments)
ParseArgs ==
    /\ pc = "parse"
    /\ \E crash \in BOOLEAN :
        IF crash
        THEN /\ Raise([type |-> "RuntimeError", msg |-> "crashed while parsing"])
             /\ UNCHANGED <<options, stderr>>
        ELSE IF UsageError(argv) # "none"
        THEN /\ error(UsageError(argv))
             /\ UNCHANGED options
        ELSE /\ options' = Namespace(argv)
             /\ pc' = "dispatch"
             /\ UNCHANGED <<failure, outcome, stderr, raisedExit>>
    /\ UNCHANGED <<envVars, run, argv, parser, interrupted, debuggerLog, invoked,
                   originVars, treeVars, nameVars>>

\* Mutant: the AttributeError of line 268 is swallowed
MissingArgumentIgnored ==
    /\ outcome' = Returned
    /\ pc' = "done"
    /\ UNCHANGED <<failure, raisedExit, stderr>>

\* line 269
MissingArgument == error("Argument missing.")

\* lines 266-271: resolve options.execute and call it
Dispatch ==
    /\ pc = "dispatch"
    /\ IF options.execute = "none"
       THEN /\ MissingArgument
            /\ UNCHANGED invoked
       ELSE /\ invoked' = invoked + 1
            /\ pc' = IF options.execute \in OriginBound
                     THEN "fromProfileName" ELSE "execute"
            /\ UNCHANGED <<failure, outcome, stderr, raisedExit>>
    /\ UNCHANGED <<envVars, run, argv, parser, options, interrupted,
                   debuggerLog, originVars, treeVars, nameVars>>

\* Mutant: the session of an earlier invocation is kept and used again
FromProfileNameCached ==
    /\ pc = "fromProfileName"
    /\ \E ok \in BOOLEAN :
        IF ok
        THEN /\ IF nSessions > 0
                THEN /\ session' = [id |-> nSessions, profile |-> options.profile_name]
                     /\ UNCHANGED <<nSessions, bootstraps>>
                ELSE /\ session' = [id |-> 1, profile |-> options.profile_name]
                     /\ nSessions' = 1
                     /\ bootstraps' = bootstraps + 1
             /\ pc' = "Origin"
             /\ UNCHANGED <<failure, outcome, stderr, raisedExit>>
        ELSE /\ Raise([type |-> "SessionError", msg |-> "cannot open session"])
             /\ UNCHANGED <<session, nSessions, bootstraps, stderr>>
    /\ UNCHANGED <<envVars, run, argv, parser, options, interrupted, debuggerLog,
                   invoked, origin, calls, nOrigins, retired, treeVars, nameVars>>

\* lines 178, 190: session = bones.SessionAPI.fromProfileName(...)
FromProfileName ==
    /\ pc = "fromProfileName"
    /\ \E ok \in BOOLEAN :
        IF ok
        THEN /\ session' = [id |-> nSessions + 1, profile |-> options.profile_name]
             /\ nSessions' = nSessions + 1
             /\ bootstraps' = bootstraps + 1
             /\ pc' = "Origin"
             /\ UNCHANGED <<failure, outcome, stderr, raisedExit>>
        ELSE /\ Raise([type |-> "SessionError", msg |-> "cannot open session"])
             /\ UNCHANGED <<session, nSessions, bootstraps, stderr>>
    /\ UNCHANGED <<envVars, run, argv, parser, options, interrupted, debuggerLog,
                   invoked, origin, calls, nOrigins, retired, treeVars, nameVars>>

\* lines 179, 191: origin = viscera.Origin(session)
Origin ==
    /\ pc = "Origin"
    /\ \E ok \in BOOLEAN :
        IF ok
        THEN /\ origin' = [id |-> nOrigins + 1, session |-> session.id]
             /\ nOrigins' = nOrigins + 1
             /\ pc' = "execute"
             /\ UNCHANGED <<failure, outcome, stderr, raisedExit>>
        ELSE /\ Raise([type |-> "OriginError", msg |-> "cannot build origin"])
             /\ UNCHANGED <<origin, nOrigins, stderr>>
    /\ UNCHANGED <<envVars, run, argv, parser, options, interrupted, debuggerLog,
                   invoked, session, bootstraps, calls, nSessions, retired,
                   treeVars, nameVars>>

\* lines 180, 192: self.execute(origin, options[, target=...]); for the
\* commands that are not credential-bound, the body of __call__.
Execute ==
    /\ pc = "execute"
    /\ calls' = Append(calls, [command |-> options.execute, origin |-> origin,
                               options |-> options,
                               target |-> IF options.execute = "OriginTableCommand"
                                          THEN options.output_format ELSE "none"])
    /\ \E does \in {"return", "raise", "exit 0", "exit 3"} :
        CASE does = "return" ->
                /\ outcome' = Returned
                /\ pc' = "done"
                /\ UNCHANGED <<failure, raisedExit>>
          [] does = "raise" ->
                Raise([type |-> "CommandError", msg |-> "command failed"])
          [] does = "exit 0" -> RaiseSystemExit(0)
          [] does = "exit 3" -> RaiseSystemExit(3)
    /\ stderr' = stderr
    /\ UNCHANGED <<envVars, run, argv, parser, options, interrupted, debuggerLog,
                   invoked, session, origin, bootstraps, nSessions, nOrigins,
                   retired, treeVars, nameVars>>

\* Mutant: the debug flag is tested the wrong way round
NotTerseInverted == parser = "None" \/ options = NoOptions \/ ~options.debug

\* line 279
NotTerse == parser = "None" \/ options = NoOptions \/ options.debug

\* Mutant: only standard output is tested
InteractiveStdoutOnly == stdoutTty

\* line 282
Interactive == stdinTty /\ stdoutTty

\* lines 274-295: the handler of an uncaught Exception
HandleFailure ==
    /\ pc = "except"
    /\ IF NotTerse
       THEN IF Interactive
            THEN /\ debuggerLog' = Append(debuggerLog, failure)
                 /\ pc' = "post_mortem"
                 /\ UNCHANGED <<outcome, stderr, failure, raisedExit>>
            ELSE /\ outcome' = Raised(failure)
                 /\ pc' = "done"
                 /\ UNCHANGED <<debuggerLog, stderr, failure, raisedExit>>
       ELSE /\ error(Format(failure))
            /\ UNCHANGED debuggerLog
    /\ UNCHANGED <<envVars, run, argv, parser, options, interrupted,
                   invoked, originVars, treeVars, nameVars>>

\* lines 255, 288: the debugger session ends and main() exits quietly
PostMortemEnds ==
    /\ pc = "post_mortem"
    /\ outcome' = SystemExit(1)
    /\ pc' = "done"
    /\ UNCHANGED <<envVars, run, argv, parser, options, failure, interrupted,
                   stderr, debuggerLog, invoked, raisedExit, originVars, treeVars,
                   nameVars>>

\* The positions of main() inside the try body, and inside the handler of
\* line 274.
Guarded == {"prepare", "parse", "dispatch", "fromProfileName", "Origin", "execute"}
Handling == {"except", "post_mortem"}

\* A KeyboardInterrupt is delivered. In the try body the clause of line 272
\* turns it into SystemExit(1); raised inside the handler of line 274 it is
\* matched by no clause and leaves main() as it is.
Interrupt ==
    /\ pc \in Guarded \cup Handling
    /\ interrupted' = TRUE
    /\ outcome' = IF pc \in Guarded THEN SystemExit(1) ELSE KeyboardInterrupt
    /\ pc' = "done"
    /\ UNCHANGED <<envVars, run, argv, parser, options, failure, stderr,
                   debuggerLog, invoked, raisedExit, originVars, treeVars, nameVars>>

\* lines 258-260: the next invocation of main()
Main ==
    /\ pc = "done"
    /\ run < MaxRuns
    /\ run' = run + 1
    /\ \E a \in Argvs : argv' = a
    /\ pc' = "prepare"
    /\ parser' = "None"
    /\ options' = NoOptions
    /\ failure' = NoFailure
    /\ interrupted' = FALSE
    /\ outcome' = Running
    /\ stderr' = <<>>
    /\ debuggerLog' = <<>>
    /\ invoked' = 0
    /\ raisedExit' = NotRaised
    /\ session' = NoSession
    /\ origin' = NoOrigin
    /\ bootstraps' = 0
    /\ calls' = <<>>
    /\ retired' = [sessions |-> retired.sessions \cup ({session.id} \ {0}),
                   origins |-> retired.origins \cup ({origin.id} \ {0})]
    /\ UNCHANGED <<envVars, nSessions, nOrigins, treeVars, nameVars>>

\* The profile store as get_profile_names_and_default reads it at import.
get_profile_names_and_default ==
    \E config \in SUBSET Profiles :
        /\ PROFILE_NAMES = sorted(config)
        /\ PROFILE_DEFAULT \in {NoDefault} \cup {[none |-> FALSE, name |-> p] : p \in config}

TreeIdle ==
    /\ nodes = 1
    /\ subparsersAttr = [n \in 1..MaxNodes |-> 0]
    /\ baseSubparsers = [n \in 1..MaxNodes |-> FALSE]
    /\ choices = [n \in 1..MaxNodes |-> [c \in ChildNames |-> 0]]
    /\ nGroups = 0
    /\ built = [n \in 1..MaxNodes |-> 0]
    /\ firstGroup = [n \in 1..MaxNodes |-> 0]
    /\ result = NoResult

NameIdle ==
    /\ ident = <<>>
    /\ names = <<>>

MainStart ==
    /\ run = 1
    /\ argv \in Argvs
    /\ pc = "prepare"
    /\ parser = "None"
    /\ options = NoOptions
    /\ failure = NoFailure
    /\ interrupted = FALSE
    /\ outcome = Running
    /\ stderr = <<>>
    /\ debuggerLog = <<>>
    /\ invoked = 0
    /\ raisedExit = NotRaised
    /\ session = NoSession
    /\ origin = NoOrigin
    /\ bootstraps = 0
    /\ calls = <<>>
    /\ nSessions = 0
    /\ nOrigins = 0
    /\ retired = [sessions |-> {}, origins |-> {}]

Init ==
    /\ stdinTty \in BOOLEAN
    /\ stdoutTty \in BOOLEAN
    /\ get_profile_names_and_default
    /\ MainStart
    /\ TreeIdle
    /\ NameIdle

Next ==
    \/ PrepareParser
    \/ ParseArgs
    \/ Dispatch
    \/ FromProfileName
    \/ Origin
    \/ Execute
    \/ HandleFailure
    \/ PostMortemEnds
    \/ Interrupt
    \/ Main

Spec == Init /\ [][Next]_vars

\* ------------------------------------------------------------ ArgumentParser

\* Mutant: the group is built but never stored in self.__subparsers, so the
\* next access runs argparse's one-shot add_subparsers again.
subparsersNotCached(n) ==
    IF baseSubparsers[n]
    THEN UNCHANGED <<subparsersAttr, baseSubparsers, nGroups, built>>
    ELSE /\ nGroups' = nGroups + 1
         /\ baseSubparsers' = [baseSubparsers EXCEPT ![n] = TRUE]
         /\ built' = [built EXCEPT ![n] = @ + 1]
         /\ UNCHANGED subparsersAttr

\* lines 77-86: the subparsers property of node n. argparse's own
\* add_subparsers refuses (through self.error) a node that has a group.
subparsers(n) ==
    IF subparsersAttr[n] # 0 \/ baseSubparsers[n]
    THEN UNCHANGED <<subparsersAttr, baseSubparsers, nGroups, built>>
    ELSE /\ nGroups' = nGroups + 1
         /\ subparsersAttr' = [subparsersAttr EXCEPT ![n] = nGroups + 1]
         /\ baseSubparsers' = [baseSubparsers EXCEPT ![n] = TRUE]
         /\ built' = [built EXCEPT ![n] = @ + 1]

\* What the access of subparsers(n) evaluates to: the group, or -1 when
\* argparse's add_subparsers ended in self.error.
Group(n) ==
    IF subparsersAttr[n] # 0 THEN subparsersAttr[n]
    ELSE IF baseSubparsers[n] THEN -1
    ELSE nGroups + 1

\* The first group an access of node n returned.
Accessed(n) ==
    firstGroup' = [firstGroup EXCEPT ![n] = IF @ = 0 THEN Group(n) ELSE @]

\* parser.subparsers
AccessSubparsers(n) ==
    /\ n \in 1..nodes
    /\ subparsers(n)
    /\ Accessed(n)
    /\ result' = [op |-> "subparsers", node |-> n, group |-> Group(n),
                  value |-> 0, raised |-> IF Group(n) = -1 THEN "SystemExit" ELSE "none"]
    /\ UNCHANGED <<nodes, choices, envVars, mainVars, originVars, nameVars>>

\* lines 88-90: parser[name]
GetItem(n, child) ==
    /\ n \in 1..nodes
    /\ subparsers(n)
    /\ Accessed(n)
    /\ result' = [op |-> "getitem", node |-> n, group |-> Group(n),
                  value |-> choices[n][child],
                  raised |-> IF Group(n) = -1 THEN "SystemExit"
                             ELSE IF choices[n][child] = 0 THEN "KeyError"
                             ELSE "none"]
    /\ UNCHANGED <<nodes, choices, envVars, mainVars, originVars, nameVars>>

\* lines 127-139: cls.register(parser, name). add_parser constructs the
\* child node; a name that is taken is replaced, or refused as a conflict by
\* the newer argparse.
register(n, child) ==
    /\ n \in 1..nodes
    /\ subparsers(n)
    /\ Accessed(n)
    /\ \E conflict \in {FALSE, choices[n][child] # 0} :
        IF Group(n) = -1 \/ conflict
        THEN /\ result' = [op |-> "register", node |-> n, group |-> Group(n),
                           value |-> 0,
                           raised |-> IF Group(n) = -1 THEN "SystemExit"
                                      ELSE "ArgumentError"]
             /\ UNCHANGED <<nodes, choices>>
        ELSE /\ nodes < MaxNodes
             /\ nodes' = nodes + 1
             /\ choices' = [choices EXCEPT ![n][child] = nodes + 1]
             /\ result' = [op |-> "register", node |-> n, group |-> Group(n),
                           value |-> nodes + 1, raised |-> "none"]
    /\ UNCHANGED <<envVars, mainVars, originVars, nameVars>>

\* lines 73-75: parser.add_subparsers()
add_subparsers(n) ==
    /\ n \in 1..nodes
    /\ result' = [op |-> "add_subparsers", node |-> n, group |-> 0,
                  value |-> 0, raised |-> "NotImplementedError"]
    /\ UNCHANGED <<nodes, subparsersAttr, baseSubparsers, choices, nGroups, built,
                   firstGroup, envVars, mainVars, originVars, nameVars>>

MainIdle ==
    /\ stdinTty = FALSE
    /\ stdoutTty = FALSE
    /\ PROFILE_NAMES = <<>>
    /\ PROFILE_DEFAULT = NoDefault
    /\ MainStart
    /\ argv.cmd = "none" /\ ~argv.debug

InitTree ==
    /\ MainIdle
    /\ TreeIdle
    /\ NameIdle

NextTree ==
    \/ \E n \in 1..MaxNodes : AccessSubparsers(n)
    \/ \E n \in 1..MaxNodes, child \in ChildNames : GetItem(n, child)
    \/ \E n \in 1..MaxNodes, child \in ChildNames : register(n, child)
    \/ \E n \in 1..MaxNodes : add_subparsers(n)

SpecTree == InitTree /\ [][NextTree]_vars

\* ------------------------------------------------------------ Command.name()

Lower(c) ==
    CASE c = "C" -> "c"
      [] c = "M" -> "m"
      [] c = "D" -> "d"
      [] OTHER -> c

startswith(s, prefix) ==
    /\ Len(s) >= Len(prefix)
    /\ SubSeq(s, 1, Len(prefix)) = prefix

\* Mutant: the prefix is cut one character short
nameKeepsHyphen(identifier) ==
    LET replaced == [i \in 1..Len(identifier) |->
                        IF identifier[i] = "_" THEN "-" ELSE identifier[i]]
        lowered == [i \in 1..Len(replaced) |-> Lower(replaced[i])]
    IN  IF startswith(lowered, <<"c", "m", "d", "-">>)
        THEN SubSeq(lowered, 4, Len(lowered))
        ELSE lowered

\* lines 120-125: Command.name(), of the class named identifier
name(identifier) ==
    LET replaced == [i \in 1..Len(identifier) |->
                        IF identifier[i] = "_" THEN "-" ELSE identifier[i]]
        lowered == [i \in 1..Len(replaced) |-> Lower(replaced[i])]
    IN  IF startswith(lowered, <<"c", "m", "d", "-">>)
        THEN SubSeq(lowered, 5, Len(lowered))
        ELSE lowered

\* The pieces the identifiers of the command types are built from.
Pieces == {<<"c", "m", "d">>, <<"C", "m", "d">>, <<"_">>, <<"l", "i", "s", "t">>,
           <<"f", "i", "l", "e", "s">>, <<"d", "o">>, <<"t", "h", "i", "n", "g">>}

RECURSIVE Concat(_)
Concat(ps) == IF ps = <<>> THEN <<>> ELSE Head(ps) \o Concat(Tail(ps))

Identifiers == {Concat(ps) : ps \in UNION {[1..k -> Pieces] : k \in 1..MaxPieces}}

\* cls.name() is called
CallName ==
    /\ Len(names) < MaxCalls
    /\ names' = Append(names, name(ident))
    /\ UNCHANGED <<ident, envVars, mainVars, originVars, treeVars>>

InitName ==
    /\ MainIdle
    /\ TreeIdle
    /\ ident \in Identifiers
    /\ names = <<>>

NextName == CallName

SpecName == InitName /\ [][NextName]_vars

\* ------------------------------------------------------------ properties

Done == pc = "done"
Parsed == parser # "None" /\ options # NoOptions
TerseError(message) == <<colorized("Error: "), plain(message), plain("\n")>>

\* C1: an uncaught Exception raised after parsing has completed, with the
\* debug flag off and no interrupt delivered, never enters the post-mortem
\* debugger and is never re-raised; main() ends with exit status 2 after
\* parser.error printed the failure's message.
C1_TerseErrorExit2 ==
    (failure # NoFailure /\ Parsed /\ ~options.debug) =>
        /\ debuggerLog = <<>>
        /\ pc # "post_mortem"
        /\ outcome.kind # "raised"
        /\ (Done /\ ~interrupted) =>
                /\ outcome = SystemExit(2)
                /\ stderr = TerseError(failure.msg)

C1_Witness ==
    /\ Done
    /\ failure.type = "CommandError"
    /\ Parsed /\ ~options.debug
    /\ stdinTty /\ stdoutTty
    /\ outcome = SystemExit(2)
    /\ stderr # <<>>

\* C2: an uncaught Exception raised before parsing completed or with the
\* debug flag set (no interrupt delivered): at a fully interactive terminal
\* the debugger is entered exactly once, on that failure, and main() ends
\* with exit status 1; otherwise the debugger is never entered and the
\* failure is re-raised unchanged.
C2_PostMortemOrReraise ==
    (failure # NoFailure /\ (~Parsed \/ options.debug)) =>
        /\ Len(debuggerLog) <= 1
        /\ stderr = <<>>
        /\ (Done /\ ~interrupted) =>
                IF stdinTty /\ stdoutTty
                THEN /\ debuggerLog = <<failure>>
                     /\ outcome = SystemExit(1)
                ELSE /\ debuggerLog = <<>>
                     /\ outcome = Raised(failure)

C2_Witness ==
    /\ Done
    /\ failure.type = "CommandError"
    /\ options.debug
    /\ stdinTty /\ stdoutTty
    /\ debuggerLog = <<failure>>
    /\ outcome = SystemExit(1)

\* C3: a SystemExit raised in the try body of main() (by the command, or by
\* parser.error for a usage error) leaves main() at once with its status
\* unchanged: the handler of line 274 is not entered, so the debugger is not
\* entered and no terse error is printed for it.
C3_SystemExitPropagates ==
    raisedExit # NotRaised =>
        /\ Done
        /\ outcome = SystemExit(raisedExit)
        /\ failure = NoFailure
        /\ debuggerLog = <<>>
        /\ invoked > 0 => stderr = <<>>
        /\ invoked = 0 => Len(stderr) = 3

C3_Witness ==
    /\ raisedExit = 3
    /\ options.debug
    /\ stdinTty /\ stdoutTty
    /\ outcome = SystemExit(3)

\* C4 (as claimed): whenever a KeyboardInterrupt was delivered during an
\* invocation of main(), the invocation ends with exit status 1, and the
\* debugger is never entered on the interrupt.
C4_InterruptExits1 ==
    (Done /\ interrupted) =>
        /\ outcome = SystemExit(1)
        /\ \A i \in 1..Len(debuggerLog) : debuggerLog[i].type # "KeyboardInterrupt"

\* C5: when the parsed options carry no execute value, no command is
\* invoked and (no interrupt delivered) main() ends through parser.error
\* with "Argument missing." and exit status 2, whatever the debug flag and
\* the terminals are.
C5_ArgumentMissing ==
    (options.set /\ options.execute = "none") =>
        /\ invoked = 0
        /\ calls = <<>>
        /\ failure = NoFailure
        /\ (Done /\ ~interrupted) =>
                /\ outcome = SystemExit(2)
                /\ stderr = TerseError("Argument missing.")

C5_Witness ==
    /\ Done
    /\ argv.cmd = "verb"
    /\ options.set /\ options.debug
    /\ stdinTty /\ stdoutTty
    /\ outcome = SystemExit(2)
    /\ stderr = TerseError("Argument missing.")

\* The usage and help text print_help would write.
HelpText == plain("usage and help")

\* C6 (as claimed): whatever ArgumentParser.error wrote is the parser's help
\* text, then the colorized "Error:" prefix, then the message, and the
\* process then ends with exit status 2.
C6_ErrorPrintsHelpFirst ==
    (Done /\ stderr # <<>>) =>
        /\ Len(stderr) = 4
        /\ stderr[1] = HelpText
        /\ stderr[2] = colorized("Error: ")
        /\ outcome = SystemExit(2)

OmitsProfile == argv.cmd \in OriginBound /\ argv.profile = 0
BadProfile ==
    argv.cmd \in OriginBound /\ argv.profile # 0
    /\ argv.profile \notin Range(PROFILE_NAMES)
Undisturbed == Done /\ ~interrupted /\ failure = NoFailure

\* C8: for a credential-bound command, with a default profile an omitted
\* --profile-name is no usage error and the options carry the default's
\* name; without a default an omitted --profile-name, and in both cases a
\* value outside the stored names, is a usage error with exit status 2 and
\* the command is not invoked.
C8_ProfileNameOption ==
    /\ (OmitsProfile /\ ~PROFILE_DEFAULT.none) =>
            /\ stderr = <<>> \/ failure # NoFailure
            /\ options.set => options.profile_name = PROFILE_DEFAULT.name
            /\ \A i \in 1..Len(calls) :
                    calls[i].options.profile_name = PROFILE_DEFAULT.name
            /\ Undisturbed => invoked = 1
    /\ ((OmitsProfile /\ PROFILE_DEFAULT.none) \/ BadProfile) =>
            /\ ~options.set
            /\ invoked = 0
            /\ calls = <<>>
            /\ Undisturbed => (outcome = SystemExit(2) /\ Len(stderr) = 3)

C8_Witness ==
    /\ Done
    /\ OmitsProfile
    /\ ~PROFILE_DEFAULT.none
    /\ Len(PROFILE_NAMES) = 2
    /\ Len(calls) = 1
    /\ calls[1].options.profile_name = PROFILE_DEFAULT.name
    /\ session.profile = PROFILE_DEFAULT.name

\* C10: every invocation of a credential-bound command builds exactly one
\* session from options.profile_name, then one origin wrapping it, before
\* its single call of the concrete execute; neither was built for an
\* earlier invocation; when the bootstrap fails execute is not called.
C10_FreshBootstrapPerInvocation ==
    /\ Len(calls) <= 1
    /\ bootstraps <= 1
    /\ session.id # 0 => session.id \notin retired.sessions
    /\ origin.id # 0 => origin.id \notin retired.origins
    /\ failure.type \in {"SessionError", "OriginError"} => calls = <<>>
    /\ (calls # <<>> /\ options.execute \in OriginBound) =>
            /\ bootstraps = 1
            /\ session.id # 0
            /\ session.profile = options.profile_name
            /\ origin.id # 0
            /\ origin.session = session.id
            /\ calls[1].origin = origin
            /\ calls[1].command = options.execute
    /\ (Done /\ outcome = Returned /\ options.execute \in OriginBound) =>
            Len(calls) = 1

C10_Witness ==
    /\ run = 2
    /\ Done
    /\ outcome = Returned
    /\ options.execute = "OriginTableCommand"
    /\ retired.sessions # {}
    /\ retired.origins # {}
    /\ Len(calls) = 1
    /\ calls[1].target = options.output_format

\* C7: a node's child-parser group is constructed at most once: the
\* attribute always holds the group the node's first access returned, every
\* access through subparsers, parser[name] or register returns that group,
\* no two nodes share a group, and a direct add_subparsers() call raises
\* NotImplementedError and changes no group.
C7_GroupBuiltOnce ==
    /\ \A n \in 1..MaxNodes :
        /\ built[n] <= 1
        /\ (built[n] = 1) <=> (subparsersAttr[n] # 0)
        /\ subparsersAttr[n] = firstGroup[n]
        /\ \A m \in 1..MaxNodes :
            (m # n /\ subparsersAttr[n] # 0) => subparsersAttr[m] # subparsersAttr[n]
    /\ result.op \in {"subparsers", "getitem", "register"} =>
        /\ result.group > 0
        /\ result.group = firstGroup[result.node]
        /\ result.raised # "SystemExit"
    /\ result.op = "add_subparsers" =>
        /\ result.raised = "NotImplementedError"
        /\ result.group = 0

C7_Witness ==
    /\ result.op = "add_subparsers"
    /\ subparsersAttr[result.node] # 0
    /\ choices[result.node]["list"] # 0
    /\ choices[result.node]["files"] # 0
    /\ built[result.node] = 1

LowerHyphen(c) == IF c = "_" THEN "-" ELSE Lower(c)

\* The string begins with a "cmd" segment and its separator.
HasCmdSegment(s) ==
    /\ Len(s) >= 4
    /\ Lower(s[1]) = "c" /\ Lower(s[2]) = "m" /\ Lower(s[3]) = "d"
    /\ s[4] \in {"_", "-"}

\* n is s lowercased with hyphens for underscores, less its leading "cmd"
\* segment when it has one.
Derived(s, n) ==
    LET k == Len(s) - Len(n)
    IN  /\ k = (IF HasCmdSegment(s) THEN 4 ELSE 0)
        /\ \A i \in 1..Len(n) : n[i] = LowerHyphen(s[i + k])

cmd_list_files == <<"c", "m", "d", "_", "l", "i", "s", "t", "_", "f", "i", "l", "e", "s">>
do_thing == <<"d", "o", "_", "t", "h", "i", "n", "g">>

Examples(n) ==
    /\ ident = cmd_list_files => n = <<"l", "i", "s", "t", "-", "f", "i", "l", "e", "s">>
    /\ ident = do_thing => n = <<"d", "o", "-", "t", "h", "i", "n", "g">>

\* C9 (as claimed): every call of name() gives the same result, the
\* identifier lowercased with hyphens for underscores and its leading "cmd"
\* segment stripped, and deriving again from that result changes nothing.
C9_NameIdempotent ==
    \A i \in 1..Len(names) :
        /\ names[i] = names[1]
        /\ Derived(ident, names[i])
        /\ Examples(names[i])
        /\ name(names[i]) = names[i]

\* C9 (amended): every call of name() gives the same result, the identifier
\* lowercased with hyphens for underscores and exactly one leading "cmd"
\* segment stripped; deriving again from the result changes nothing unless
\* the result itself begins with a "cmd" segment, and then strips that one.
C9_NameStripsOneSegment ==
    \A i \in 1..Len(names) :
        /\ names[i] = names[1]
        /\ Derived(ident, names[i])
        /\ Examples(names[i])
        /\ Derived(names[i], name(names[i]))
        /\ ~HasCmdSegment(names[i]) => name(names[i]) = names[i]
        /\ HasCmdSegment(names[i]) => Len(name(names[i])) = Len(names[i]) - 4

C9_Witness ==
    /\ ident = cmd_list_files
    /\ Len(names) = MaxCalls
    /\ names[MaxCalls] = <<"l", "i", "s", "t", "-", "f", "i", "l", "e", "s">>
    /\ name(names[MaxCalls]) = names[MaxCalls]

====
